---- MODULE Spec2Model ----
(***************************************************************************)
(* Model of the lazy iterator adaptors of src/iterator/iterators.h:        *)
(* Iterate, Reverse, Enumerate, Chain, AsReferences, Join, Map, Filter.    *)
(*                                                                         *)
(* A view is built over its source(s); a traversal takes the view's        *)
(* begin()/end() (or rbegin()/rend()) cursors and runs the loop            *)
(*     for (it = begin; it != end; ++it) { read or write through it }      *)
(* one cursor operation per step.  A standard iterator is a position in a  *)
(* named container; a std::reverse_iterator holds a base position and      *)
(* designates the element just before it.                                  *)
(***************************************************************************)
EXTENDS Integers, Sequences, FiniteSets, TLC

\* ---- bounds of the model ------------------------------------------------
MaxVal == 2
MaxLen == 3
MaxOuter == 4
MaxInner == 2
HeapSize == 2
MaxWrites == 1

Vals == 1..MaxVal
\* the value the tests assign through a dereferenced cursor
NewVal == 123
\* what a read through an invalid position may produce besides a value
Undef == NewVal + 1
Addrs == 1..HeapSize

Views == {"Iterate", "Reverse", "Enumerate", "Chain", "AsReferences", "Join", "Map", "Filter"}
SingleSourceViews == {"Iterate", "Reverse", "Enumerate", "Map", "Filter"}

RECURSIVE SeqsUpTo(_, _)
SeqsUpTo(S, n) ==
  IF n = 0 THEN {<<>>}
  ELSE LET shorter == SeqsUpTo(S, n - 1)
       IN  shorter \cup {Append(s, x) : s \in {t \in shorter : Len(t) = n - 1}, x \in S}

\* Join, Chain and AsReferences never look at an element's value: their
\* sources hold a distinct value per element, so that any element skipped,
\* repeated or out of place shows in what a traversal yields
Label(k, i) == 10 * k + i

LabelledSeq(k, n) == [i \in 1..n |-> Label(k, i)]

VARIABLES
  view,               \* which adaptor built the view
  wrap,               \* TRUE: the view is wrapped once more in Reverse(...)
  rev,                \* TRUE: the traversal uses rbegin()/rend()
  iterable_,          \* source of a one-source view (pointers for AsReferences)
  first_, second_,    \* sources of Join
  data_,              \* source of Chain: a collection of collections
  heap,               \* the objects the pointers of an AsReferences source point to
  filter_,            \* Filter's predicate, as the set of values it accepts
  mapping_function_,  \* Map's function
  it, end_it,         \* the traversal's cursor and the end cursor it is compared to
  ref,                \* the reference obtained by the last dereference
  out,                \* what the traversal has yielded so far
  pc,                 \* "start", "test" (before it != end), "body" (after deref), "done"
  writes,             \* ordinals (1-based yield index) at which a write was made
  orig,               \* the sources as they were when the view was built
  caller,             \* the collection(s) the caller built the view from
  edited,             \* how many elements the caller has changed in its collection
  round,              \* 0: the client runs one loop; else the ordinal of its current loop
  depth,              \* how many adaptors the view expression nests
  adaptor,            \* the outermost adaptor of the expression, "none" for a collection
  binding, binding2,  \* the type T deduced for the adaptor's argument(s)
  source, source2,    \* the class(es) of the adaptor's argument(s)
  class,              \* the class of the expression
  touched,            \* TRUE: every collection the expression traverses has rbegin()
  cursor,             \* the member type of the cursor the client took, "none" if none
  held,               \* what the client holds of the last dereference
  modified,           \* TRUE: the client has assigned to an element of the source
  access,             \* "mutable" or "const": how the second cursor's client sees the view
  it2, end2,          \* a second cursor taken from the same view, and its end cursor
  out2,               \* what the second cursor's traversal has yielded so far
  pc2,                \* the second traversal's position, "none" when there is none
  advances,           \* how often a Chain cursor has advanced its outer position
  calls,              \* the elements the first traversal invoked Map's function on
  in_place            \* what Map's function adds to the element it is given

vars == <<view, wrap, rev, iterable_, first_, second_, data_, heap, filter_,
          mapping_function_, it, end_it, ref, out, pc, writes, orig,
          caller, edited, round, depth, adaptor, binding, binding2, source, source2, class, touched,
          cursor, held, modified, access, it2, end2, out2, pc2, advances, calls, in_place>>

sources == <<iterable_, first_, second_, data_, heap, caller>>
expression == <<depth, adaptor, binding, binding2, source, source2, class, touched>>
client == <<cursor, held, modified>>
other == <<access, it2, end2, out2, pc2>>
config == <<view, wrap, rev, filter_, mapping_function_, orig, edited, round, expression, client,
            other, advances, in_place>>
traversal == <<it, end_it, ref, out, pc, writes>>

Storage == [iterable |-> iterable_, first |-> first_, second |-> second_,
            data |-> data_, heap |-> heap]

\* the collection(s) the view's members hold or refer to
Members == [iterable |-> iterable_, first |-> first_, second |-> second_, data |-> data_]

\* ---- containers, positions and references --------------------------------
\* the container a standard iterator walks: a source, or the k-th inner
\* collection of Chain's source
Coll(c, k) ==
  CASE c = "iterable" -> iterable_
    [] c = "first" -> first_
    [] c = "second" -> second_
    [] c = "data" -> data_
    [] c = "inner" -> IF k \in 1..Len(data_) THEN data_[k] ELSE <<>>
    [] OTHER -> <<>>

NullIt == [c |-> "null", k |-> 0, base |-> 0, reversed |-> FALSE]
NullLoc == [c |-> "null", k |-> 0, i |-> 0]

StdBegin(c, k) == [c |-> c, k |-> k, base |-> 1, reversed |-> FALSE]
StdEnd(c, k) == [c |-> c, k |-> k, base |-> Len(Coll(c, k)) + 1, reversed |-> FALSE]
StdRBegin(c, k) == [c |-> c, k |-> k, base |-> Len(Coll(c, k)) + 1, reversed |-> TRUE]
StdREnd(c, k) == [c |-> c, k |-> k, base |-> 1, reversed |-> TRUE]

\* details::cbegin and the like: the same positions, taken from the
\* collection seen as const
cbegin(c, k) == StdBegin(c, k)
cend(c, k) == StdEnd(c, k)
crbegin(c, k) == StdRBegin(c, k)
crend(c, k) == StdREnd(c, k)

StdInc(i) == [i EXCEPT !.base = IF i.reversed THEN @ - 1 ELSE @ + 1]

\* the element a standard iterator designates
StdLoc(i) == [c |-> i.c, k |-> i.k, i |-> IF i.reversed THEN i.base - 1 ELSE i.base]

ValidLoc(l) ==
  IF l.c = "heap" THEN l.i \in 1..Len(heap)
  ELSE l.c # "null" /\ l.i \in 1..Len(Coll(l.c, l.k))

\* variant: the view reads the copy of the elements it took when it was built
ReadLoc_Snapshot(l) ==
  IF ~ValidLoc(l) THEN Undef
  ELSE CASE l.c = "heap" -> orig.heap[l.i]
         [] l.c = "iterable" -> orig.iterable[l.i]
         [] l.c = "first" -> orig.first[l.i]
         [] l.c = "second" -> orig.second[l.i]
         [] OTHER -> orig.data[l.k][l.i]

ReadLoc(l) ==
  IF ~ValidLoc(l) THEN Undef
  ELSE IF l.c = "heap" THEN heap[l.i] ELSE Coll(l.c, l.k)[l.i]

\* the outcomes of reading through a reference: the element, or anything at
\* all when the reference designates no element
DerefValues(l) == IF ValidLoc(l) THEN {ReadLoc(l)} ELSE Vals \cup {Undef, NewVal}

\* a bidirectional standard container seen through its four cursor getters
Container(c, k) ==
  [begin |-> StdBegin(c, k), end |-> StdEnd(c, k),
   rbegin |-> StdRBegin(c, k), rend |-> StdREnd(c, k)]

\* the same container seen as const
ConstContainer(c, k) ==
  [begin |-> cbegin(c, k), end |-> cend(c, k), rbegin |-> crbegin(c, k), rend |-> crend(c, k)]

\* ---- JoinedIterator -------------------------------------------------------
JoinedIterator(first, first_end, second, second_end) ==
  [first_ |-> first, first_end_ |-> first_end, second_ |-> second, second_end_ |-> second_end]

\* variant: operator* reads the half that operator++ is not walking
JoinedIterator_Deref_OtherHalf(x) ==
  IF x.first_ # x.first_end_ THEN StdLoc(x.second_) ELSE StdLoc(x.first_)

\* operator*: the reference it returns
JoinedIterator_Deref(x) ==
  IF x.first_ # x.first_end_ THEN StdLoc(x.first_) ELSE StdLoc(x.second_)

JoinedIterator_Inc(x) ==
  IF x.first_ # x.first_end_
    THEN [x EXCEPT !.first_ = StdInc(@)]
    ELSE [x EXCEPT !.second_ = StdInc(@)]

\* variant: operator== compares the position in the first half only
JoinedIterator_Eq_FirstOnly(x, y) == x.first_ = y.first_

JoinedIterator_Eq(x, y) == x.first_ = y.first_ /\ x.second_ = y.second_

\* variant: the cursor of begin() starts with second_ already exhausted
ForwardJoined_begin_SecondAtEnd ==
  JoinedIterator(StdBegin("first", 0), StdEnd("first", 0), StdEnd("second", 0), StdEnd("second", 0))

ForwardJoined_begin ==
  JoinedIterator(StdBegin("first", 0), StdEnd("first", 0), StdBegin("second", 0), StdEnd("second", 0))

ForwardJoined_end ==
  JoinedIterator(StdEnd("first", 0), StdEnd("first", 0), StdEnd("second", 0), StdEnd("second", 0))

Joined_rbegin ==
  JoinedIterator(StdRBegin("second", 0), StdREnd("second", 0), StdRBegin("first", 0), StdREnd("first", 0))

Joined_rend ==
  JoinedIterator(StdREnd("second", 0), StdREnd("second", 0), StdREnd("first", 0), StdREnd("first", 0))

\* variant: the reverse cursors walk first_ before second_
Joined_HalvesInForwardOrder ==
  [begin |-> ForwardJoined_begin, end |-> ForwardJoined_end,
   rbegin |-> JoinedIterator(StdRBegin("first", 0), StdREnd("first", 0),
                             StdRBegin("second", 0), StdREnd("second", 0)),
   rend |-> JoinedIterator(StdREnd("first", 0), StdREnd("first", 0),
                           StdREnd("second", 0), StdREnd("second", 0))]

Joined ==
  [begin |-> ForwardJoined_begin, end |-> ForwardJoined_end,
   rbegin |-> Joined_rbegin, rend |-> Joined_rend]

\* begin() const, end() const, rbegin() const, rend() const
Joined_const ==
  [begin |-> JoinedIterator(cbegin("first", 0), cend("first", 0),
                            cbegin("second", 0), cend("second", 0)),
   end |-> JoinedIterator(cend("first", 0), cend("first", 0),
                          cend("second", 0), cend("second", 0)),
   rbegin |-> JoinedIterator(crbegin("second", 0), crend("second", 0),
                             crbegin("first", 0), crend("first", 0)),
   rend |-> JoinedIterator(crend("second", 0), crend("second", 0),
                           crend("first", 0), crend("first", 0))]

\* ---- EnumeratedIterator ---------------------------------------------------
\* Item(): position 0, null value pointer
Item(position, value) == [position_ |-> position, value_ |-> value]

EnumeratedIterator_SetItem(x) ==
  IF x.begin_ # x.end_
    THEN [x EXCEPT !.item_ = Item(x.position_, StdLoc(x.begin_))]
    ELSE x

EnumeratedIterator(begin, end, position, position_delta) ==
  EnumeratedIterator_SetItem(
    [begin_ |-> begin, end_ |-> end, position_ |-> position,
     position_delta_ |-> position_delta, item_ |-> Item(0, NullLoc)])

\* variant: the item is kept in one place for all cursors of the view, and
\* holds what the first traversal's cursor last put there
EnumeratedIterator_Deref_Shared(x) ==
  IF "item_" \in DOMAIN it THEN it.item_ ELSE x.item_

\* operator*: the cursor's own item
EnumeratedIterator_Deref(x) == x.item_

\* variant: ++ leaves the position where it was
EnumeratedIterator_Inc_KeepsPosition(x) ==
  EnumeratedIterator_SetItem([x EXCEPT !.begin_ = StdInc(@)])

\* variant: ++ does not rebuild the item
EnumeratedIterator_Inc_StaleItem(x) ==
  [x EXCEPT !.begin_ = StdInc(@), !.position_ = @ + x.position_delta_]

EnumeratedIterator_Inc(x) ==
  EnumeratedIterator_SetItem(
    [x EXCEPT !.begin_ = StdInc(@), !.position_ = @ + x.position_delta_])

EnumeratedIterator_Eq(x, y) == x.begin_ = y.begin_

kIncrement == 1
kDecrement == -1

\* variant: the size itself, not the last index
MaxPosition_Size == Len(iterable_)

MaxPosition == Len(iterable_) - 1

ForwardEnumerated_begin ==
  EnumeratedIterator(StdBegin("iterable", 0), StdEnd("iterable", 0), 0, kIncrement)

ForwardEnumerated_end ==
  EnumeratedIterator(StdEnd("iterable", 0), StdEnd("iterable", 0), 0, kIncrement)

Enumerated_rbegin ==
  EnumeratedIterator(StdRBegin("iterable", 0), StdREnd("iterable", 0), MaxPosition, kDecrement)

Enumerated_rend ==
  EnumeratedIterator(StdREnd("iterable", 0), StdREnd("iterable", 0), MaxPosition, kDecrement)

Enumerated ==
  [begin |-> ForwardEnumerated_begin, end |-> ForwardEnumerated_end,
   rbegin |-> Enumerated_rbegin, rend |-> Enumerated_rend]

Enumerated_const ==
  [begin |-> EnumeratedIterator(cbegin("iterable", 0), cend("iterable", 0), 0, kIncrement),
   end |-> EnumeratedIterator(cend("iterable", 0), cend("iterable", 0), 0, kIncrement),
   rbegin |-> EnumeratedIterator(crbegin("iterable", 0), crend("iterable", 0),
                                 MaxPosition, kDecrement),
   rend |-> EnumeratedIterator(crend("iterable", 0), crend("iterable", 0),
                               MaxPosition, kDecrement)]

\* ---- Iterated and Reversed ------------------------------------------------
Iterated ==
  [begin |-> StdBegin("iterable", 0), end |-> StdEnd("iterable", 0),
   rbegin |-> StdRBegin("iterable", 0), rend |-> StdREnd("iterable", 0)]

Iterated_const ==
  [begin |-> cbegin("iterable", 0), end |-> cend("iterable", 0),
   rbegin |-> crbegin("iterable", 0), rend |-> crend("iterable", 0)]

\* variant: rbegin()/rend() are not turned back into the source's begin()/end()
Reversed_ReverseGettersAlsoReversed(c) ==
  [begin |-> c.rbegin, end |-> c.rend, rbegin |-> c.rbegin, rend |-> c.rend]

\* variant: begin()/end() are the source's own begin()/end()
Reversed_ForwardGettersNotReversed(c) ==
  [begin |-> c.begin, end |-> c.end, rbegin |-> c.begin, rend |-> c.end]

\* Reversed over any collection c that has the four cursor getters
Reversed(c) ==
  [begin |-> c.rbegin, end |-> c.rend, rbegin |-> c.begin, rend |-> c.end]

\* ---- ChainedIterator ------------------------------------------------------
ChainedIterator_IsAtEnd(x) == x.outer_begin_ = x.outer_end_

ChainedIterator_IsAtEndOfInnerCollection(x) == x.inner_begin_ = x.inner_end_

\* the inner getters GetBegin/GetEnd, GetReverseBegin/GetReverseEnd,
\* GetConstBegin/GetConstEnd or GetConstReverseBegin/GetConstReverseEnd
GetInnerBegin(getter, k) ==
  CASE getter = "reverse" -> StdRBegin("inner", k)
    [] getter = "const" -> cbegin("inner", k)
    [] getter = "const_reverse" -> crbegin("inner", k)
    [] OTHER -> StdBegin("inner", k)

GetInnerEnd(getter, k) ==
  CASE getter = "reverse" -> StdREnd("inner", k)
    [] getter = "const" -> cend("inner", k)
    [] getter = "const_reverse" -> crend("inner", k)
    [] OTHER -> StdEnd("inner", k)

ChainedIterator_InitializeInnerCollection(x) ==
  IF ~ChainedIterator_IsAtEnd(x)
    THEN [x EXCEPT !.inner_begin_ = GetInnerBegin(x.get_inner_, StdLoc(x.outer_begin_).i),
                   !.inner_end_ = GetInnerEnd(x.get_inner_, StdLoc(x.outer_begin_).i)]
    ELSE x

\* variant: the outer cursor advances without re-initializing the inner one
ChainedIterator_AdvanceOuterCollection_KeepsInner(x) ==
  [x EXCEPT !.outer_begin_ = StdInc(@)]

ChainedIterator_AdvanceOuterCollection(x) ==
  ChainedIterator_InitializeInnerCollection([x EXCEPT !.outer_begin_ = StdInc(@)])

RECURSIVE ChainedIterator_SkipEmptyInnerCollections(_)
\* variant: an if where the loop is, one empty inner collection skipped at most
ChainedIterator_SkipEmptyInnerCollections_Once(x) ==
  IF ~ChainedIterator_IsAtEnd(x) /\ ChainedIterator_IsAtEndOfInnerCollection(x)
    THEN ChainedIterator_AdvanceOuterCollection(x)
    ELSE x

ChainedIterator_SkipEmptyInnerCollections(x) ==
  IF ~ChainedIterator_IsAtEnd(x) /\ ChainedIterator_IsAtEndOfInnerCollection(x)
    THEN ChainedIterator_SkipEmptyInnerCollections(ChainedIterator_AdvanceOuterCollection(x))
    ELSE x

ChainedIterator(begin, end, getter) ==
  ChainedIterator_SkipEmptyInnerCollections(
    ChainedIterator_InitializeInnerCollection(
      [outer_begin_ |-> begin, outer_end_ |-> end,
       inner_begin_ |-> NullIt, inner_end_ |-> NullIt, get_inner_ |-> getter]))

ChainedIterator_Deref(x) == StdLoc(x.inner_begin_)

ChainedIterator_Inc(x) ==
  ChainedIterator_SkipEmptyInnerCollections([x EXCEPT !.inner_begin_ = StdInc(@)])

ChainedIterator_Eq(x, y) == ChainedIterator_IsAtEnd(x) = ChainedIterator_IsAtEnd(y)

ForwardChained_begin == ChainedIterator(StdBegin("data", 0), StdEnd("data", 0), "forward")
ForwardChained_end == ChainedIterator(StdEnd("data", 0), StdEnd("data", 0), "forward")
Chained_rbegin == ChainedIterator(StdRBegin("data", 0), StdREnd("data", 0), "reverse")
Chained_rend == ChainedIterator(StdREnd("data", 0), StdREnd("data", 0), "reverse")

\* variant: the reverse cursors walk each inner collection front to back
Chained_InnerForward ==
  [begin |-> ForwardChained_begin, end |-> ForwardChained_end,
   rbegin |-> ChainedIterator(StdRBegin("data", 0), StdREnd("data", 0), "forward"),
   rend |-> ChainedIterator(StdREnd("data", 0), StdREnd("data", 0), "forward")]

Chained ==
  [begin |-> ForwardChained_begin, end |-> ForwardChained_end,
   rbegin |-> Chained_rbegin, rend |-> Chained_rend]

\* variant: the const reverse cursors walk each inner collection front to back
Chained_const_InnerForward ==
  [begin |-> ChainedIterator(cbegin("data", 0), cend("data", 0), "const"),
   end |-> ChainedIterator(cend("data", 0), cend("data", 0), "const"),
   rbegin |-> ChainedIterator(crbegin("data", 0), crend("data", 0), "const"),
   rend |-> ChainedIterator(crend("data", 0), crend("data", 0), "const")]

Chained_const ==
  [begin |-> ChainedIterator(cbegin("data", 0), cend("data", 0), "const"),
   end |-> ChainedIterator(cend("data", 0), cend("data", 0), "const"),
   rbegin |-> ChainedIterator(crbegin("data", 0), crend("data", 0), "const_reverse"),
   rend |-> ChainedIterator(crend("data", 0), crend("data", 0), "const_reverse")]

\* ---- ReferencedIterator ---------------------------------------------------
ReferencedIterator(begin, end) == [begin_ |-> begin, end_ |-> end]

\* operator*: the object the designated pointer points to
\* variant: operator* dereferences once and returns the entry itself
ReferencedIterator_Deref_Once(x) == StdLoc(x.begin_)

ReferencedIterator_Deref(x) == [c |-> "heap", k |-> 0, i |-> ReadLoc(StdLoc(x.begin_))]

ReferencedIterator_Inc(x) == [x EXCEPT !.begin_ = StdInc(@)]

ReferencedIterator_Eq(x, y) == x.begin_ = y.begin_

Referenced ==
  [begin |-> ReferencedIterator(StdBegin("iterable", 0), StdEnd("iterable", 0)),
   end |-> ReferencedIterator(StdEnd("iterable", 0), StdEnd("iterable", 0)),
   rbegin |-> ReferencedIterator(StdRBegin("iterable", 0), StdREnd("iterable", 0)),
   rend |-> ReferencedIterator(StdREnd("iterable", 0), StdREnd("iterable", 0))]

Referenced_const ==
  [begin |-> ReferencedIterator(cbegin("iterable", 0), cend("iterable", 0)),
   end |-> ReferencedIterator(cend("iterable", 0), cend("iterable", 0)),
   rbegin |-> ReferencedIterator(crbegin("iterable", 0), crend("iterable", 0)),
   rend |-> ReferencedIterator(crend("iterable", 0), crend("iterable", 0))]

\* ---- MappedIterator -------------------------------------------------------
MappedIterator(begin, end) == [begin_ |-> begin, end_ |-> end]

\* the function applied to what was read from the element
ApplyMappingFunction(v) ==
  IF v \in DOMAIN mapping_function_ THEN mapping_function_[v] ELSE Undef

\* variant: the element is returned as it is
MappedIterator_Deref_NoFunction(x, v) == v

\* operator*: the computed value
MappedIterator_Deref(x, v) == ApplyMappingFunction(v)

\* variant: operator* evaluates the function twice
MappedIterator_Calls_Twice(x) == <<StdLoc(x.begin_), StdLoc(x.begin_)>>

\* the elements operator* invokes the function on: the one its source cursor
\* designates, once
MappedIterator_Calls(x) == <<StdLoc(x.begin_)>>

MappedIterator_Inc(x) == [x EXCEPT !.begin_ = StdInc(@)]

MappedIterator_Eq(x, y) == x.begin_ = y.begin_

Mapped ==
  [begin |-> MappedIterator(StdBegin("iterable", 0), StdEnd("iterable", 0)),
   end |-> MappedIterator(StdEnd("iterable", 0), StdEnd("iterable", 0)),
   rbegin |-> MappedIterator(StdRBegin("iterable", 0), StdREnd("iterable", 0)),
   rend |-> MappedIterator(StdREnd("iterable", 0), StdREnd("iterable", 0))]

Mapped_const ==
  [begin |-> MappedIterator(cbegin("iterable", 0), cend("iterable", 0)),
   end |-> MappedIterator(cend("iterable", 0), cend("iterable", 0)),
   rbegin |-> MappedIterator(crbegin("iterable", 0), crend("iterable", 0)),
   rend |-> MappedIterator(crend("iterable", 0), crend("iterable", 0))]

\* ---- FilterIterator -------------------------------------------------------
FilterIterator_IsEnd(x) == x.begin_ = x.end_

FilterIterator_IsFiltered(x) == ReadLoc(StdLoc(x.begin_)) \notin filter_

RECURSIVE FilterIterator_SkipFilteredEntries(_)
FilterIterator_SkipFilteredEntries(x) ==
  IF ~FilterIterator_IsEnd(x) /\ FilterIterator_IsFiltered(x)
    THEN FilterIterator_SkipFilteredEntries([x EXCEPT !.begin_ = StdInc(@)])
    ELSE x

\* variant: the constructor does not skip the filtered entries it starts on
FilterIterator_NoInitialSkip(begin, end) == [begin_ |-> begin, end_ |-> end]

FilterIterator(begin, end) ==
  FilterIterator_SkipFilteredEntries([begin_ |-> begin, end_ |-> end])

FilterIterator_Deref(x) == StdLoc(x.begin_)

\* variant: ++ does not skip the filtered entries that follow
FilterIterator_Inc_NoSkip(x) == [x EXCEPT !.begin_ = StdInc(@)]

FilterIterator_Inc(x) ==
  FilterIterator_SkipFilteredEntries([x EXCEPT !.begin_ = StdInc(@)])

FilterIterator_Eq(x, y) == x.begin_ = y.begin_

Filtered ==
  [begin |-> FilterIterator(StdBegin("iterable", 0), StdEnd("iterable", 0)),
   end |-> FilterIterator(StdEnd("iterable", 0), StdEnd("iterable", 0)),
   rbegin |-> FilterIterator(StdRBegin("iterable", 0), StdREnd("iterable", 0)),
   rend |-> FilterIterator(StdREnd("iterable", 0), StdREnd("iterable", 0))]

Filtered_const ==
  [begin |-> FilterIterator(cbegin("iterable", 0), cend("iterable", 0)),
   end |-> FilterIterator(cend("iterable", 0), cend("iterable", 0)),
   rbegin |-> FilterIterator(crbegin("iterable", 0), crend("iterable", 0)),
   rend |-> FilterIterator(crend("iterable", 0), crend("iterable", 0))]

\* ---- the view under traversal ----------------------------------------------
\* what the adaptor named by `view` returns
BaseView ==
  CASE view = "Iterate" -> Iterated
    [] view = "Reverse" -> Reversed(Container("iterable", 0))
    [] view = "Enumerate" -> Enumerated
    [] view = "Chain" -> Chained
    [] view = "AsReferences" -> Referenced
    [] view = "Join" -> Joined
    [] view = "Map" -> Mapped
    [] OTHER -> Filtered

\* Reverse(view) when the view is wrapped
TheView == IF wrap THEN Reversed(BaseView) ELSE BaseView

\* the same view seen as const: the const overloads of its getters
ConstBaseView ==
  CASE view = "Iterate" -> Iterated_const
    [] view = "Reverse" -> Reversed(ConstContainer("iterable", 0))
    [] view = "Enumerate" -> Enumerated_const
    [] view = "Chain" -> Chained_const
    [] view = "AsReferences" -> Referenced_const
    [] view = "Join" -> Joined_const
    [] view = "Map" -> Mapped_const
    [] OTHER -> Filtered_const

\* Reversed's const getters are the const reverse getters of what it wraps
ConstView == IF wrap THEN Reversed(ConstBaseView) ELSE ConstBaseView

\* ---- size() and empty() of a view --------------------------------------------
\* the tests call size() and empty() on views; they are propagated from the
\* wrapped source(s)
RECURSIVE SumOfSizes(_)
SumOfSizes(d) == IF d = <<>> THEN 0 ELSE Len(Head(d)) + SumOfSizes(Tail(d))

size ==
  CASE view = "Join" -> Len(first_) + Len(second_)
    [] view = "Chain" -> SumOfSizes(data_)
    [] view = "Filter" -> Cardinality({i \in 1..Len(iterable_) : iterable_[i] \in filter_})
    [] OTHER -> Len(iterable_)

empty ==
  CASE view = "Join" -> first_ = <<>> /\ second_ = <<>>
    [] view = "Chain" -> \A k \in 1..Len(data_) : data_[k] = <<>>
    [] view = "Filter" -> \A i \in 1..Len(iterable_) : iterable_[i] \notin filter_
    [] OTHER -> iterable_ = <<>>

\* ---- the types the adaptors compute ---------------------------------------
\* the type T deduced for an adaptor's argument T&&: an lvalue, a const
\* lvalue, an rvalue, a const rvalue of collection class C
Bindings == {"C&", "const C&", "C", "const C"}

is_const_type(T) == T \in {"const C&", "const C"}

is_any_const(T1, T2) == is_const_type(T1) \/ is_const_type(T2)

\* what dereferencing a cursor gives: a reference to an element ("T&"), a
\* reference to a const element ("const T&"), a computed value ("T"), or
\* nothing because operator* does not compile ("ill-formed")
References == {"T&", "const T&"}

\* a collection class: what each of its cursor types dereferences to ("none"
\* when the class has no such member), the kind of its value_type, and the
\* class of its elements when they are collections
Class(iterator, const_iterator, reverse_iterator, const_reverse_iterator, value_type, inner) ==
  [iterator |-> iterator, const_iterator |-> const_iterator,
   reverse_iterator |-> reverse_iterator, const_reverse_iterator |-> const_reverse_iterator,
   value_type |-> value_type, inner |-> inner]

\* the collections the tests build views over
vector(value_type, inner) == Class("T&", "const T&", "T&", "const T&", value_type, inner)

forward_list(value_type, inner) == Class("T&", "const T&", "none", "none", value_type, inner)

initializer_list(value_type, inner) ==
  Class("const T&", "const T&", "none", "none", value_type, inner)

InnerCollections == {vector("int", <<>>), forward_list("int", <<>>)}

StdCollections ==
  {vector(v, <<>>) : v \in {"int", "pointer"}}
    \cup {forward_list(v, <<>>) : v \in {"int", "pointer"}}
    \cup {initializer_list(v, <<>>) : v \in {"int", "pointer"}}
    \cup {vector("collection", <<i>>) : i \in InnerCollections}
    \cup {forward_list("collection", <<i>>) : i \in InnerCollections}
    \cup {initializer_list("collection", <<i>>) : i \in InnerCollections}

has_rbegin(S) == S.reverse_iterator # "none"

is_bidirectional_collection(S) == has_rbegin(S)

\* variant: one bidirectional collection of the two is enough
are_bidirectional_collections_Either(S1, S2) ==
  is_bidirectional_collection(S1) \/ is_bidirectional_collection(S2)

are_bidirectional_collections(S1, S2) ==
  is_bidirectional_collection(S1) /\ is_bidirectional_collection(S2)

is_nested_bidirectional_collection(S) == are_bidirectional_collections(S, S.inner[1])

is_const_collection(T, S) == is_const_type(T) \/ S.iterator = "const T&"

non_const_iterator_t(T, S) == IF is_const_type(T) THEN S.const_iterator ELSE S.iterator

non_const_reverse_iterator_t(T, S) ==
  IF is_const_type(T) THEN S.const_reverse_iterator ELSE S.reverse_iterator

\* Iterate: the view's cursors are the source's own
ForwardIteratedType(T, S) ==
  Class(non_const_iterator_t(T, S), S.const_iterator, "none", "none", S.value_type, S.inner)

IteratedType(T, S) ==
  [ForwardIteratedType(T, S) EXCEPT !.reverse_iterator = non_const_reverse_iterator_t(T, S),
                                    !.const_reverse_iterator = S.const_reverse_iterator]

Iterate(T, S) ==
  IF is_bidirectional_collection(S) THEN IteratedType(T, S) ELSE ForwardIteratedType(T, S)

\* Reverse: the forward cursors are the source's reverse cursors and back
ReversedType(T, S) ==
  Class(non_const_reverse_iterator_t(T, S), S.const_reverse_iterator,
        non_const_iterator_t(T, S), S.const_iterator, S.value_type, S.inner)

\* variant: Reverse accepts any collection
Reverse_static_assert_Absent(S) == TRUE

Reverse_static_assert(S) == is_bidirectional_collection(S)

Reverse(T, S) == ReversedType(T, S)

\* EnumeratedIterator<_iterator, _return_type>: operator* returns its item,
\* SetItem takes the address of the const_cast dereferenced source cursor
EnumeratedIterator_Access(a, const_item) ==
  IF a \in References THEN (IF const_item THEN "const T&" ELSE "T&") ELSE "ill-formed"

ForwardEnumeratedType(T, S) ==
  LET const_iterator == EnumeratedIterator_Access(S.const_iterator, TRUE)
      non_const_iterator == EnumeratedIterator_Access(S.iterator, FALSE)
  IN  Class(IF is_const_collection(T, S) THEN const_iterator ELSE non_const_iterator,
            const_iterator, "none", "none", "Item", <<>>)

EnumeratedType(T, S) ==
  LET const_reverse_iterator == EnumeratedIterator_Access(S.const_reverse_iterator, TRUE)
      non_const_reverse_iterator == EnumeratedIterator_Access(S.reverse_iterator, FALSE)
  IN  [ForwardEnumeratedType(T, S) EXCEPT
         !.reverse_iterator = IF is_const_collection(T, S) THEN const_reverse_iterator
                              ELSE non_const_reverse_iterator,
         !.const_reverse_iterator = const_reverse_iterator]

Enumerate(T, S) ==
  IF is_bidirectional_collection(S) THEN EnumeratedType(T, S) ELSE ForwardEnumeratedType(T, S)

\* ChainedIterator<_outer_iterator, _inner_iterator>: operator* is auto& of
\* the inner cursor; the inner collection is reached by a const_cast of the
\* dereferenced outer cursor
ChainedIterator_Access(outer, inner) ==
  IF outer \in References /\ inner \in References THEN inner ELSE "ill-formed"

ForwardChainedType(T, S) ==
  LET I == S.inner[1]
  IN  Class(IF is_const_type(T) THEN ChainedIterator_Access(S.const_iterator, I.const_iterator)
            ELSE ChainedIterator_Access(S.iterator, I.iterator),
            ChainedIterator_Access(S.const_iterator, I.const_iterator),
            "none", "none", I.value_type, I.inner)

ChainedType(T, S) ==
  LET I == S.inner[1]
  IN  [ForwardChainedType(T, S) EXCEPT
         !.reverse_iterator =
             IF is_const_type(T)
               THEN ChainedIterator_Access(S.const_reverse_iterator, I.const_reverse_iterator)
               ELSE ChainedIterator_Access(S.reverse_iterator, I.reverse_iterator),
         !.const_reverse_iterator =
             ChainedIterator_Access(S.const_reverse_iterator, I.const_reverse_iterator)]

Chain(T, S) ==
  IF is_nested_bidirectional_collection(S) THEN ChainedType(T, S) ELSE ForwardChainedType(T, S)

\* ReferencedIterator<_iterator, _return_value>: operator* returns
\* _return_value& from the twice dereferenced source cursor
ReferencedIterator_Access(a, const_value) ==
  IF a \in References \cup {"T"} THEN (IF const_value THEN "const T&" ELSE "T&")
  ELSE "ill-formed"

ForwardReferencedType(T, S) ==
  LET const_iterator == ReferencedIterator_Access(S.const_iterator, TRUE)
      non_const_iterator == ReferencedIterator_Access(S.iterator, FALSE)
  IN  Class(IF is_const_type(T) THEN const_iterator ELSE non_const_iterator,
            const_iterator, "none", "none", "int", <<>>)

ReferencedType(T, S) ==
  LET const_reverse_iterator == ReferencedIterator_Access(S.const_reverse_iterator, TRUE)
      non_const_reverse_iterator == ReferencedIterator_Access(S.reverse_iterator, FALSE)
  IN  [ForwardReferencedType(T, S) EXCEPT
         !.reverse_iterator = IF is_const_type(T) THEN const_reverse_iterator
                              ELSE non_const_reverse_iterator,
         !.const_reverse_iterator = const_reverse_iterator]

AsReferences(T, S) ==
  IF is_bidirectional_collection(S) THEN ReferencedType(T, S) ELSE ForwardReferencedType(T, S)

\* JoinedIterator<_FirstIterator, _SecondIterator>: operator* is auto& of
\* either cursor, so both must dereference to the same type
JoinedIterator_Access(a1, a2) ==
  IF a1 = a2 /\ a1 \in References THEN a1 ELSE "ill-formed"

ForwardJoinedType(T1, S1, T2, S2) ==
  LET const_iterator == JoinedIterator_Access(S1.const_iterator, S2.const_iterator)
      non_const_iterator == JoinedIterator_Access(S1.iterator, S2.iterator)
  IN  Class(IF is_any_const(T1, T2) THEN const_iterator ELSE non_const_iterator,
            const_iterator, "none", "none", S1.value_type, S1.inner)

JoinedType(T1, S1, T2, S2) ==
  LET const_reverse_iterator ==
        JoinedIterator_Access(S2.const_reverse_iterator, S1.const_reverse_iterator)
      non_const_reverse_iterator ==
        JoinedIterator_Access(S2.reverse_iterator, S1.reverse_iterator)
  IN  [ForwardJoinedType(T1, S1, T2, S2) EXCEPT
         !.reverse_iterator = IF is_any_const(T1, T2) THEN const_reverse_iterator
                              ELSE non_const_reverse_iterator,
         !.const_reverse_iterator = const_reverse_iterator]

Join(T1, S1, T2, S2) ==
  IF are_bidirectional_collections(S1, S2) THEN JoinedType(T1, S1, T2, S2)
  ELSE ForwardJoinedType(T1, S1, T2, S2)

\* MappedIterator: operator* returns the function's result by value
MappedIterator_Access(a) == IF a \in References \cup {"T"} THEN "T" ELSE "ill-formed"

ForwardMappedType(T, S) ==
  Class(IF is_const_type(T) THEN MappedIterator_Access(S.const_iterator)
        ELSE MappedIterator_Access(S.iterator),
        MappedIterator_Access(S.const_iterator), "none", "none", "int", <<>>)

MappedType(T, S) ==
  [ForwardMappedType(T, S) EXCEPT
     !.reverse_iterator = IF is_const_type(T) THEN MappedIterator_Access(S.const_reverse_iterator)
                          ELSE MappedIterator_Access(S.reverse_iterator),
     !.const_reverse_iterator = MappedIterator_Access(S.const_reverse_iterator)]

Map(T, S) ==
  IF is_bidirectional_collection(S) THEN MappedType(T, S) ELSE ForwardMappedType(T, S)

\* FilterIterator: operator* is auto& of the source cursor
FilterIterator_Access(a) == IF a \in References THEN a ELSE "ill-formed"

ForwardFilteredType(T, S) ==
  Class(IF is_const_type(T) THEN FilterIterator_Access(S.const_iterator)
        ELSE FilterIterator_Access(S.iterator),
        FilterIterator_Access(S.const_iterator), "none", "none", S.value_type, S.inner)

FilteredType(T, S) ==
  [ForwardFilteredType(T, S) EXCEPT
     !.reverse_iterator = IF is_const_type(T) THEN FilterIterator_Access(S.const_reverse_iterator)
                          ELSE FilterIterator_Access(S.reverse_iterator),
     !.const_reverse_iterator = FilterIterator_Access(S.const_reverse_iterator)]

Filter(T, S) ==
  IF is_bidirectional_collection(S) THEN FilteredType(T, S) ELSE ForwardFilteredType(T, S)

\* no expression, no client: the state of the type variables while a
\* traversal runs
NoExpression ==
  /\ depth = 0 /\ adaptor = "none"
  /\ binding2 = "C&"
  /\ source = vector("int", <<>>) /\ source2 = vector("int", <<>>)
  /\ class = vector("int", <<>>)
  /\ touched = TRUE
  /\ cursor = "none" /\ held = "none" /\ modified = FALSE

\* one cursor only
NoOther ==
  /\ access = "mutable"
  /\ it2 = [begin_ |-> NullIt] /\ end2 = [begin_ |-> NullIt]
  /\ out2 = <<>> /\ pc2 = "none"
  /\ advances = 0

NullCursor == [begin_ |-> NullIt]

\* T iterable_: the member is a reference to the caller's collection when T
\* is deduced as a reference, and a collection of its own otherwise
Borrows_Never(T) == FALSE

Borrows(T) == T \in {"C&", "const C&"}

\* a view over source(s) of at most maxLen elements (maxOuter inner
\* collections for Chain)
Construct(maxLen, maxOuter) ==
  /\ view \in Views
  /\ rev \in BOOLEAN
  /\ iterable_ \in (IF view \in SingleSourceViews THEN SeqsUpTo(Vals, maxLen)
                    ELSE IF view = "AsReferences" THEN SeqsUpTo(Addrs, maxLen)
                    ELSE {<<>>})
  /\ heap = (IF view = "AsReferences" THEN LabelledSeq(1, HeapSize) ELSE <<>>)
  /\ first_ \in (IF view = "Join" THEN {LabelledSeq(1, n) : n \in 0..maxLen} ELSE {<<>>})
  /\ second_ \in (IF view = "Join" THEN {LabelledSeq(2, n) : n \in 0..maxLen} ELSE {<<>>})
  /\ data_ \in (IF view = "Chain"
                THEN {[k \in 1..Len(shape) |-> LabelledSeq(k, shape[k])] :
                        shape \in SeqsUpTo(0..MaxInner, maxOuter)}
                ELSE {<<>>})
  /\ filter_ \in (IF view = "Filter" THEN SUBSET Vals ELSE {{}})
  /\ mapping_function_ \in (IF view = "Map" THEN [Vals -> Vals] ELSE {<<>>})
  /\ orig = Storage
  /\ caller = Members
  /\ edited = 0

\* no loop has begun
Idle ==
  /\ it = NullCursor
  /\ end_it = NullCursor
  /\ ref = NullLoc
  /\ out = <<>>
  /\ pc = "start"
  /\ writes = <<>>
  /\ calls = <<>>

Init ==
  /\ Construct(MaxLen, MaxOuter)
  /\ wrap \in BOOLEAN
  /\ Idle
  /\ round = 0
  /\ binding = "C&"
  /\ NoExpression
  /\ NoOther
  /\ in_place = 0

\* it = view.begin(), end = view.end()  (or rbegin()/rend())
Begin ==
  /\ pc = "start"
  /\ it' = (IF rev THEN TheView.rbegin ELSE TheView.begin)
  /\ end_it' = (IF rev THEN TheView.rend ELSE TheView.end)
  /\ pc' = "test"
  /\ UNCHANGED <<ref, out, writes, calls, sources, config>>

\* *it yields the reference l, through which v is read
Yield(l, v) ==
  /\ ref' = l
  /\ out' = Append(out, v)
  /\ pc' = "body"
  /\ UNCHANGED <<it, end_it, writes, calls, sources, config>>

\* ++it leaves the cursor at n
Advance(n) ==
  /\ it' = n
  /\ ref' = NullLoc
  /\ pc' = "test"
  /\ UNCHANGED <<end_it, out, writes, calls, sources, config>>

StdViews == {"Iterate", "Reverse"}

StdDeref ==
  /\ pc = "test" /\ view \in StdViews /\ it # end_it
  /\ \E v \in DerefValues(StdLoc(it)) : Yield(StdLoc(it), v)

StdIncrement ==
  /\ pc = "body" /\ view \in StdViews
  /\ Advance(StdInc(it))

JoinedDeref ==
  /\ pc = "test" /\ view = "Join" /\ ~JoinedIterator_Eq(it, end_it)
  /\ \E v \in DerefValues(JoinedIterator_Deref(it)) : Yield(JoinedIterator_Deref(it), v)

JoinedIncrement ==
  /\ pc = "body" /\ view = "Join"
  /\ Advance(JoinedIterator_Inc(it))

EnumeratedDeref ==
  /\ pc = "test" /\ view = "Enumerate" /\ ~EnumeratedIterator_Eq(it, end_it)
  /\ LET item == EnumeratedIterator_Deref(it)
     IN  \E v \in DerefValues(item.value_) :
           Yield(item.value_, [Position |-> item.position_, Value |-> v, At |-> item.value_])

EnumeratedIncrement ==
  /\ pc = "body" /\ view = "Enumerate"
  /\ Advance(EnumeratedIterator_Inc(it))

ChainedDeref ==
  /\ pc = "test" /\ view = "Chain" /\ ~ChainedIterator_Eq(it, end_it)
  /\ \E v \in DerefValues(ChainedIterator_Deref(it)) : Yield(ChainedIterator_Deref(it), v)

ChainedIncrement ==
  /\ pc = "body" /\ view = "Chain"
  /\ Advance(ChainedIterator_Inc(it))

ReferencedDeref ==
  /\ pc = "test" /\ view = "AsReferences" /\ ~ReferencedIterator_Eq(it, end_it)
  /\ \E v \in DerefValues(ReferencedIterator_Deref(it)) : Yield(ReferencedIterator_Deref(it), v)

ReferencedIncrement ==
  /\ pc = "body" /\ view = "AsReferences"
  /\ Advance(ReferencedIterator_Inc(it))

\* Map yields a computed value, not a reference; the function is given the
\* element itself and may change it in place
MappedDeref ==
  /\ pc = "test" /\ view = "Map" /\ ~MappedIterator_Eq(it, end_it)
  /\ LET l == StdLoc(it.begin_)
         invoked == MappedIterator_Calls(it)
     IN  /\ \E v \in DerefValues(l) : out' = Append(out, MappedIterator_Deref(it, v))
         /\ calls' = calls \o invoked
         /\ iterable_' = (IF ValidLoc(l)
                            THEN [iterable_ EXCEPT ![l.i] = @ + in_place * Len(invoked)]
                            ELSE iterable_)
         /\ caller' = (IF Borrows(binding) THEN [caller EXCEPT !.iterable = iterable_']
                        ELSE caller)
  /\ ref' = NullLoc
  /\ pc' = "body"
  /\ UNCHANGED <<it, end_it, writes, first_, second_, data_, heap, config>>

MappedIncrement ==
  /\ pc = "body" /\ view = "Map"
  /\ Advance(MappedIterator_Inc(it))

FilterDeref ==
  /\ pc = "test" /\ view = "Filter" /\ ~FilterIterator_Eq(it, end_it)
  /\ \E v \in DerefValues(FilterIterator_Deref(it)) : Yield(FilterIterator_Deref(it), v)

FilterIncrement ==
  /\ pc = "body" /\ view = "Filter"
  /\ Advance(FilterIterator_Inc(it))

\* it == end as the view's cursor type compares it
CursorEq(x, y) ==
  CASE view \in StdViews -> x = y
    [] view = "Enumerate" -> EnumeratedIterator_Eq(x, y)
    [] view = "Chain" -> ChainedIterator_Eq(x, y)
    [] view = "AsReferences" -> ReferencedIterator_Eq(x, y)
    [] view = "Join" -> JoinedIterator_Eq(x, y)
    [] view = "Map" -> MappedIterator_Eq(x, y)
    [] OTHER -> FilterIterator_Eq(x, y)

\* the loop ends when it == end
Finish ==
  /\ pc = "test"
  /\ CursorEq(it, end_it)
  /\ pc' = "done"
  /\ UNCHANGED <<it, end_it, ref, out, writes, calls, sources, config>>

\* how many of its positions one traversal assigns to: the single loop over
\* a Join may assign at every position, as the tests' loop does
WriteLimit == IF view = "Join" /\ round = 0 THEN 2 * MaxLen ELSE MaxWrites

\* *it = NewVal: assignment through the reference the dereference returned
Assign ==
  /\ pc = "body"
  /\ ValidLoc(ref)
  /\ Len(writes) < WriteLimit
  /\ (IF writes = <<>> THEN TRUE ELSE writes[Len(writes)] # Len(out))
  /\ iterable_' = (IF ref.c = "iterable" THEN [iterable_ EXCEPT ![ref.i] = NewVal] ELSE iterable_)
  /\ first_' = (IF ref.c = "first" THEN [first_ EXCEPT ![ref.i] = NewVal] ELSE first_)
  /\ second_' = (IF ref.c = "second" THEN [second_ EXCEPT ![ref.i] = NewVal] ELSE second_)
  /\ data_' = (IF ref.c = "inner" THEN [data_ EXCEPT ![ref.k][ref.i] = NewVal] ELSE data_)
  /\ heap' = (IF ref.c = "heap" THEN [heap EXCEPT ![ref.i] = NewVal] ELSE heap)
  /\ caller' = (IF Borrows(binding) THEN Members' ELSE caller)
  /\ writes' = Append(writes, Len(out))
  /\ UNCHANGED <<it, end_it, ref, out, pc, calls, config>>

Next ==
  \/ Begin
  \/ StdDeref \/ StdIncrement
  \/ JoinedDeref \/ JoinedIncrement
  \/ EnumeratedDeref \/ EnumeratedIncrement
  \/ ChainedDeref \/ ChainedIncrement
  \/ ReferencedDeref \/ ReferencedIncrement
  \/ MappedDeref \/ MappedIncrement
  \/ FilterDeref \/ FilterIncrement
  \/ Finish

\* read-only traversals
Spec == Init /\ [][Next]_vars

NextWrite == Next \/ Assign

\* traversals that may assign through the dereferenced cursor
SpecWrite == Init /\ [][NextWrite]_vars

\* ---- Map with a function that changes its argument ----------------------------
\* value += 100 in the function of the tests
kAdded == 100

\* a Map view over the caller's collection, its function pure or adding
\* kAdded to the element it is given
InitMap ==
  /\ Construct(MaxLen, MaxOuter)
  /\ view = "Map"
  /\ wrap \in BOOLEAN
  /\ Idle
  /\ round = 0
  /\ binding = "C&"
  /\ NoExpression
  /\ NoOther
  /\ in_place \in {0, kAdded}

NextMap == Begin \/ MappedDeref \/ MappedIncrement \/ Finish

SpecMap == InitMap /\ [][NextMap]_vars

\* ---- a Chain cursor, one step of its skipping loop at a time -------------------
\* a Chain view, traversed by begin()/end() or rbegin()/rend()
InitChain ==
  /\ Construct(MaxLen, MaxOuter)
  /\ view = "Chain"
  /\ wrap = FALSE
  /\ Idle
  /\ round = 0
  /\ binding = "C&"
  /\ NoExpression
  /\ NoOther
  /\ in_place = 0

\* the constructor up to the call of SkipEmptyInnerCollections; the end cursor
\* is built at the outer end, where the loop has nothing to do
ChainBegin ==
  /\ pc = "start"
  /\ it' = ChainedIterator_InitializeInnerCollection(
              [outer_begin_ |-> (IF rev THEN StdRBegin("data", 0) ELSE StdBegin("data", 0)),
               outer_end_ |-> (IF rev THEN StdREnd("data", 0) ELSE StdEnd("data", 0)),
               inner_begin_ |-> NullIt, inner_end_ |-> NullIt,
               get_inner_ |-> (IF rev THEN "reverse" ELSE "forward")])
  /\ end_it' = (IF rev THEN Chained.rend ELSE Chained.end)
  /\ pc' = "skip"
  /\ UNCHANGED <<ref, out, writes, calls, sources, view, wrap, rev, filter_, mapping_function_,
                 orig, edited, round, expression, client, other, advances, in_place>>

\* one turn of the loop of SkipEmptyInnerCollections
ChainAdvanceOuter ==
  /\ pc = "skip"
  /\ ~ChainedIterator_IsAtEnd(it) /\ ChainedIterator_IsAtEndOfInnerCollection(it)
  /\ it' = ChainedIterator_AdvanceOuterCollection(it)
  /\ advances' = advances + 1
  /\ UNCHANGED <<end_it, ref, out, pc, writes, calls, sources, view, wrap, rev, filter_,
                 mapping_function_, orig, edited, round, expression, client, other, in_place>>

\* the loop's condition is false: the constructor or operator++ returns
ChainSkipDone ==
  /\ pc = "skip"
  /\ ~(~ChainedIterator_IsAtEnd(it) /\ ChainedIterator_IsAtEndOfInnerCollection(it))
  /\ pc' = "test"
  /\ UNCHANGED <<it, end_it, ref, out, writes, calls, sources, config>>

\* operator++ up to the call of SkipEmptyInnerCollections
ChainIncInner ==
  /\ pc = "body" /\ view = "Chain"
  /\ it' = [it EXCEPT !.inner_begin_ = StdInc(@)]
  /\ ref' = NullLoc
  /\ pc' = "skip"
  /\ UNCHANGED <<end_it, out, writes, calls, sources, config>>

NextChain ==
  \/ ChainBegin \/ ChainAdvanceOuter \/ ChainSkipDone
  \/ ChainedDeref \/ ChainIncInner \/ Finish

\* a constructor or operator++ that has been called runs on: the skipping
\* loop takes its next turn, or returns, whenever it can
SpecChain ==
  InitChain /\ [][NextChain]_vars /\ WF_vars(ChainAdvanceOuter) /\ WF_vars(ChainSkipDone)

\* ---- two cursors of one view ---------------------------------------------------
MaxPairLen == 2
MaxPairOuter == 2

\* operator* of the view's cursor type: the element it designates
CursorLoc(x) ==
  CASE view \in StdViews -> StdLoc(x)
    [] view = "Enumerate" -> EnumeratedIterator_Deref(x).value_
    [] view = "Chain" -> ChainedIterator_Deref(x)
    [] view = "AsReferences" -> ReferencedIterator_Deref(x)
    [] view = "Join" -> JoinedIterator_Deref(x)
    [] view = "Map" -> StdLoc(x.begin_)
    [] OTHER -> FilterIterator_Deref(x)

\* what the loop body sees of the dereferenced cursor when v is read
CursorYield(x, v) ==
  CASE view = "Enumerate" ->
         [Position |-> EnumeratedIterator_Deref(x).position_, Value |-> v,
          At |-> EnumeratedIterator_Deref(x).value_]
    [] view = "Map" -> MappedIterator_Deref(x, v)
    [] OTHER -> v

\* operator++ of the view's cursor type
CursorInc(x) ==
  CASE view \in StdViews -> StdInc(x)
    [] view = "Enumerate" -> EnumeratedIterator_Inc(x)
    [] view = "Chain" -> ChainedIterator_Inc(x)
    [] view = "AsReferences" -> ReferencedIterator_Inc(x)
    [] view = "Join" -> JoinedIterator_Inc(x)
    [] view = "Map" -> MappedIterator_Inc(x)
    [] OTHER -> FilterIterator_Inc(x)

\* the view as the second client sees it
SecondView == IF access = "const" THEN ConstView ELSE TheView

\* a view and two clients that each run a read-only loop over it, the second
\* one over the view itself or over std::as_const(view)
InitPair ==
  /\ Construct(MaxPairLen, MaxPairOuter)
  /\ wrap \in BOOLEAN
  /\ Idle
  /\ round = 0
  /\ binding = "C&"
  /\ NoExpression
  /\ access \in {"mutable", "const"}
  /\ it2 = NullCursor /\ end2 = NullCursor
  /\ out2 = <<>> /\ pc2 = "start"
  /\ advances = 0
  /\ in_place = 0

first_client == <<view, wrap, rev, filter_, mapping_function_, orig, edited, round, expression,
                  client, sources, traversal, calls, advances, in_place, access>>

Begin2 ==
  /\ pc2 = "start"
  /\ it2' = (IF rev THEN SecondView.rbegin ELSE SecondView.begin)
  /\ end2' = (IF rev THEN SecondView.rend ELSE SecondView.end)
  /\ pc2' = "test"
  /\ UNCHANGED <<out2, first_client>>

Deref2 ==
  /\ pc2 = "test" /\ ~CursorEq(it2, end2)
  /\ \E v \in DerefValues(CursorLoc(it2)) : out2' = Append(out2, CursorYield(it2, v))
  /\ pc2' = "body"
  /\ UNCHANGED <<it2, end2, first_client>>

Increment2 ==
  /\ pc2 = "body"
  /\ it2' = CursorInc(it2)
  /\ pc2' = "test"
  /\ UNCHANGED <<end2, out2, first_client>>

Finish2 ==
  /\ pc2 = "test" /\ CursorEq(it2, end2)
  /\ pc2' = "done"
  /\ UNCHANGED <<it2, end2, out2, first_client>>

NextPair == Next \/ Begin2 \/ Deref2 \/ Increment2 \/ Finish2

SpecPair == InitPair /\ [][NextPair]_vars

\* ---- building view expressions and taking cursors from them ----------------
MaxDepth == 2

program == <<view, wrap, rev, filter_, mapping_function_, orig, edited, round, sources, traversal,
             other, advances, calls, in_place>>

\* a collection of the tests, and no traversal
InitTypes ==
  /\ view = "Iterate" /\ wrap = FALSE /\ rev = FALSE
  /\ iterable_ = <<>> /\ first_ = <<>> /\ second_ = <<>> /\ data_ = <<>> /\ heap = <<>>
  /\ filter_ = {} /\ mapping_function_ = <<>>
  /\ it = NullCursor /\ end_it = NullCursor /\ ref = NullLoc /\ out = <<>>
  /\ pc = "done" /\ writes = <<>> /\ orig = Storage
  /\ caller = Members /\ edited = 0 /\ round = 0
  /\ depth = 0 /\ adaptor = "none"
  /\ binding = "C&" /\ binding2 = "C&"
  /\ class \in StdCollections
  /\ source = class /\ source2 = class
  /\ touched = is_bidirectional_collection(class)
  /\ cursor = "none" /\ held = "none" /\ modified = FALSE
  /\ calls = <<>>
  /\ NoOther
  /\ in_place = 0

\* auto v = a(expression): the expression, bound as T, becomes the source of
\* a view of class C
Nest(a, T, C) ==
  /\ depth < MaxDepth /\ adaptor # "rejected" /\ cursor = "none"
  /\ depth' = depth + 1
  /\ adaptor' = a
  /\ binding' = T /\ binding2' = T
  /\ source' = class /\ source2' = class
  /\ class' = C
  /\ UNCHANGED <<client, program>>

UseIterate ==
  \E T \in Bindings : Nest("Iterate", T, Iterate(T, class)) /\ touched' = touched

\* Reverse(expression): a view, or no program at all when the static_assert fails
UseReverse ==
  \E T \in Bindings :
    IF Reverse_static_assert(class)
      THEN Nest("Reverse", T, Reverse(T, class)) /\ touched' = touched
      ELSE Nest("rejected", T, class) /\ touched' = touched

UseEnumerate ==
  \E T \in Bindings : Nest("Enumerate", T, Enumerate(T, class)) /\ touched' = touched

UseChain ==
  /\ class.value_type = "collection"
  /\ \E T \in Bindings :
       /\ Nest("Chain", T, Chain(T, class))
       /\ touched' = (touched /\ is_bidirectional_collection(class.inner[1]))

UseAsReferences ==
  /\ class.value_type = "pointer"
  /\ \E T \in Bindings : Nest("AsReferences", T, AsReferences(T, class)) /\ touched' = touched

UseMap ==
  /\ class.value_type = "int"
  /\ \E T \in Bindings : Nest("Map", T, Map(T, class)) /\ touched' = touched

UseFilter ==
  \E T \in Bindings : Nest("Filter", T, Filter(T, class)) /\ touched' = touched

\* Join(collection, collection): two collections of the same value_type
UseJoin ==
  /\ depth = 0 /\ cursor = "none"
  /\ \E T1 \in Bindings, T2 \in Bindings, S2 \in StdCollections :
       /\ S2.value_type = class.value_type /\ S2.inner = class.inner
       /\ depth' = 1
       /\ adaptor' = "Join"
       /\ binding' = T1 /\ binding2' = T2
       /\ source' = class /\ source2' = S2
       /\ class' = Join(T1, class, T2, S2)
       /\ touched' = (touched /\ is_bidirectional_collection(S2))
  /\ UNCHANGED <<client, program>>

\* the client takes a cursor of the view: begin() or rbegin(), of the view or
\* of the view seen as const
Take(member) ==
  /\ adaptor \notin {"none", "rejected"} /\ cursor = "none"
  /\ class[member] # "none"
  /\ cursor' = member
  /\ UNCHANGED <<held, modified, expression, program>>

TakeBegin == Take("iterator")

TakeRBegin == Take("reverse_iterator")

TakeConstBegin == Take("const_iterator")

TakeConstRBegin == Take("const_reverse_iterator")

\* the client dereferences the cursor, where operator* compiles
Dereference ==
  /\ cursor # "none" /\ held = "none"
  /\ class[cursor] # "ill-formed"
  /\ held' = class[cursor]
  /\ UNCHANGED <<cursor, modified, expression, program>>

\* auto copy = *it: a copy of an element is detached from the source, a copy
\* of an Item is an Item, const or not as the client declares it
CopyValue ==
  /\ held \in References
  /\ held' = (IF class.value_type = "Item" THEN "Item" ELSE "T")
  /\ UNCHANGED <<cursor, modified, expression, program>>

\* ++it, and the client lets go of what it held
Increment ==
  /\ cursor # "none" /\ held # "none"
  /\ held' = "none"
  /\ UNCHANGED <<cursor, modified, expression, program>>

\* assignment to the element: through a reference to it, or through Value()
\* of an Item, which returns a reference to the element
WriteElement ==
  /\ held \in {"T&", "Item"} /\ ~modified
  /\ modified' = TRUE
  /\ UNCHANGED <<cursor, held, expression, program>>

NextTypes ==
  \/ UseIterate \/ UseReverse \/ UseEnumerate \/ UseChain \/ UseAsReferences
  \/ UseJoin \/ UseMap \/ UseFilter
  \/ TakeBegin \/ TakeRBegin \/ TakeConstBegin \/ TakeConstRBegin
  \/ Dereference \/ CopyValue \/ Increment \/ WriteElement

\* view expressions of every nesting up to MaxDepth and what a client can do
\* with their cursors
SpecTypes == InitTypes /\ [][NextTypes]_vars

\* ---- a view kept while its source changes -----------------------------------
MaxOwnLen == 2
MaxEdits == 1
MaxTraversals == 2

\* a view built from the caller's collection itself, or from a temporary
\* copy of it
InitOwn ==
  /\ Construct(MaxOwnLen, MaxOwnLen)
  /\ wrap = FALSE
  /\ Idle
  /\ round = 1
  /\ binding \in {"C&", "C"}
  /\ NoExpression
  /\ NoOther
  /\ in_place = 0

\* the elements of the caller's collection(s)
CallerLocs ==
  {[c |-> "iterable", k |-> 0, i |-> i] : i \in 1..Len(caller.iterable)}
    \cup {[c |-> "first", k |-> 0, i |-> i] : i \in 1..Len(caller.first)}
    \cup {[c |-> "second", k |-> 0, i |-> i] : i \in 1..Len(caller.second)}
    \cup UNION {{[c |-> "inner", k |-> k, i |-> i] : i \in 1..Len(caller.data[k])} :
                 k \in 1..Len(caller.data)}

ElementAt(m, l) ==
  CASE l.c = "iterable" -> m.iterable[l.i]
    [] l.c = "first" -> m.first[l.i]
    [] l.c = "second" -> m.second[l.i]
    [] OTHER -> m.data[l.k][l.i]

StoreAt(m, l, v) ==
  CASE l.c = "iterable" -> [m EXCEPT !.iterable[l.i] = v]
    [] l.c = "first" -> [m EXCEPT !.first[l.i] = v]
    [] l.c = "second" -> [m EXCEPT !.second[l.i] = v]
    [] OTHER -> [m EXCEPT !.data[l.k][l.i] = v]

\* collection[i] = v by the caller, before a loop over the view begins; for
\* a collection of pointers, v is the address of another object
ModifySource ==
  /\ round >= 1 /\ pc = "start"
  /\ edited < MaxEdits
  /\ \E l \in CallerLocs, v \in (IF view = "AsReferences" THEN Addrs ELSE Vals) :
       /\ ElementAt(caller, l) # v
       /\ caller' = StoreAt(caller, l, v)
       /\ IF Borrows(binding)
            THEN /\ iterable_' = caller'.iterable
                 /\ first_' = caller'.first
                 /\ second_' = caller'.second
                 /\ data_' = caller'.data
            ELSE UNCHANGED <<iterable_, first_, second_, data_>>
  /\ edited' = edited + 1
  /\ UNCHANGED <<heap, traversal, calls, view, wrap, rev, filter_, mapping_function_, orig,
                 round, expression, client, other, advances, in_place>>

\* the client runs one more loop over the same view
Restart ==
  /\ pc = "done" /\ round \in 1..(MaxTraversals - 1)
  /\ round' = round + 1
  /\ pc' = "start"
  /\ it' = NullCursor /\ end_it' = NullCursor /\ ref' = NullLoc
  /\ out' = <<>> /\ writes' = <<>> /\ calls' = <<>>
  /\ UNCHANGED <<sources, view, wrap, rev, filter_, mapping_function_, orig, edited,
                 expression, client, other, advances, in_place>>

NextOwn == NextWrite \/ ModifySource \/ Restart

\* loops over one view, the caller changing elements in between
SpecOwn == InitOwn /\ [][NextOwn]_vars

\* ---- reference sequences the properties compare against --------------------
Rev(s) == [i \in 1..Len(s) |-> s[Len(s) + 1 - i]]

IsPrefix(s, t) == Len(s) <= Len(t) /\ s = SubSeq(t, 1, Len(s))

RECURSIVE Flatten(_)
Flatten(d) == IF d = <<>> THEN <<>> ELSE Head(d) \o Flatten(Tail(d))

Accepted(e) == e \in filter_

\* the traversal has ended having yielded exactly s, and yielded s in order
YieldsExactly(s) == IsPrefix(out, s) /\ (pc = "done" => out = s)

\* C1: forward traversal of Join(a,b) from begin() to end() yields the
\* elements of a in order followed by the elements of b in order, nothing
\* skipped, repeated or reordered, also when a or b is empty.
C1_JoinForward ==
  (view = "Join" /\ ~wrap /\ ~rev /\ pc # "start") => YieldsExactly(first_ \o second_)

C1_Witness ==
  /\ view = "Join" /\ ~wrap /\ ~rev /\ pc = "done"
  /\ Len(first_) = 2 /\ Len(second_) = 3
  /\ out = <<11, 12, 21, 22, 23>>

\* C2: reverse traversal of Join(a,b), by rbegin()/rend() or as the forward
\* traversal of Reverse(Join(a,b)), yields b reversed followed by a reversed.
C2_JoinReverse ==
  (view = "Join" /\ rev # wrap /\ pc # "start") => YieldsExactly(Rev(second_) \o Rev(first_))

C2_Witness ==
  /\ view = "Join" /\ wrap /\ ~rev /\ pc = "done"
  /\ first_ = <<11, 12>> /\ second_ = <<21, 22, 23>>
  /\ out = <<23, 22, 21, 12, 11>>

\* C3: forward traversal of Chain(c) yields the concatenation of all inner
\* elements in outer order, whatever the arrangement of empty inner
\* collections, with no end before the last element.
C3_ChainForward ==
  (view = "Chain" /\ ~wrap /\ ~rev /\ pc # "start") => YieldsExactly(Flatten(data_))

C3_Witness ==
  /\ view = "Chain" /\ ~wrap /\ ~rev /\ pc = "done"
  /\ data_ = << <<11, 12>>, <<>>, <<>>, <<41>> >>
  /\ out = <<11, 12, 41>>

\* C4: forward traversal of Filter(c,p) yields exactly the elements of c
\* that satisfy p, in c's order, also when the first, the last, a run of, or
\* all elements are filtered out.
C4_FilterForward ==
  (view = "Filter" /\ ~wrap /\ ~rev /\ pc # "start") => YieldsExactly(SelectSeq(iterable_, Accepted))

C4_Witness ==
  /\ view = "Filter" /\ ~wrap /\ ~rev /\ pc = "done"
  /\ iterable_ = <<1, 2, 1>> /\ filter_ = {2}
  /\ out = <<2>>

\* C5: forward traversal of Enumerate(c) yields Len(c) items with positions
\* 0, 1, ..., n-1, the i-th item's value referring to the i-th element of c.
C5_EnumerateForward ==
  (view = "Enumerate" /\ ~wrap /\ ~rev /\ pc # "start") =>
    YieldsExactly([i \in 1..Len(iterable_) |->
                    [Position |-> i - 1, Value |-> iterable_[i],
                     At |-> [c |-> "iterable", k |-> 0, i |-> i]]])

C5_Witness ==
  /\ view = "Enumerate" /\ ~wrap /\ ~rev /\ pc = "done"
  /\ Len(iterable_) = 3 /\ Len(out) = 3
  /\ out[3].Position = 2 /\ out[3].At.i = 3

\* C6: reverse traversal of Enumerate(c), by rbegin()/rend() or through
\* Reverse(Enumerate(c)), yields positions n-1, ..., 0, and the item with
\* position k refers to c[k] of the forward order.
C6_EnumerateReverse ==
  (view = "Enumerate" /\ rev # wrap /\ pc # "start") =>
    YieldsExactly([j \in 1..Len(iterable_) |->
                    [Position |-> Len(iterable_) - j,
                     Value |-> iterable_[Len(iterable_) - j + 1],
                     At |-> [c |-> "iterable", k |-> 0, i |-> Len(iterable_) - j + 1]]])

C6_Witness ==
  /\ view = "Enumerate" /\ wrap /\ ~rev /\ pc = "done"
  /\ Len(iterable_) = 3 /\ Len(out) = 3
  /\ out[1].Position = 2 /\ out[1].At.i = 3 /\ out[3].Position = 0

\* C7: forward traversal of Reverse(Reverse(c)) yields c's own sequence.
C7_ReverseReverse ==
  (view = "Reverse" /\ wrap /\ ~rev /\ pc # "start") => YieldsExactly(iterable_)

C7_Witness ==
  /\ view = "Reverse" /\ wrap /\ ~rev /\ pc = "done"
  /\ iterable_ = <<1, 2, 2>> /\ out = <<1, 2, 2>>

\* C8: forward traversal of Reverse(c) yields c back-to-front, and reverse
\* traversal of Reverse(c), rbegin() to rend(), yields c front-to-back.
C8_Reverse ==
  (view = "Reverse" /\ ~wrap /\ pc # "start") =>
    YieldsExactly(IF rev THEN iterable_ ELSE Rev(iterable_))

C8_Witness ==
  /\ view = "Reverse" /\ ~wrap /\ ~rev /\ pc = "done"
  /\ iterable_ = <<1, 2, 2>> /\ out = <<2, 2, 1>>

\* C9: forward traversal of Map(c,f) yields f(e) for each element e of c in
\* c's order, as many results as c has elements.
C9_MapForward ==
  (view = "Map" /\ ~wrap /\ ~rev /\ pc # "start") =>
    YieldsExactly([i \in 1..Len(iterable_) |-> mapping_function_[iterable_[i]]])

C9_Witness ==
  /\ view = "Map" /\ ~wrap /\ ~rev /\ pc = "done"
  /\ iterable_ = <<1, 2, 1>> /\ mapping_function_[1] = 2 /\ mapping_function_[2] = 1
  /\ out = <<2, 1, 2>>

\* ---- writing through a dereferenced cursor ---------------------------------
\* TRUE when the traversal path walks the view's source back-to-front
Backward == IF view = "Reverse" THEN rev = wrap ELSE rev # wrap

ElementLoc(c, k, i) == [c |-> c, k |-> k, i |-> i]

\* the elements of the original source a traversal is to designate, in the
\* source's own order
SourceLocs ==
  CASE view \in {"Iterate", "Reverse", "Enumerate"} ->
         [i \in 1..Len(orig.iterable) |-> ElementLoc("iterable", 0, i)]
    [] view = "Filter" ->
         SelectSeq([i \in 1..Len(orig.iterable) |-> ElementLoc("iterable", 0, i)],
                   LAMBDA l : orig.iterable[l.i] \in filter_)
    [] view = "AsReferences" ->
         [i \in 1..Len(orig.iterable) |-> ElementLoc("heap", 0, orig.iterable[i])]
    [] view = "Chain" ->
         Flatten([k \in 1..Len(orig.data) |->
                   [i \in 1..Len(orig.data[k]) |-> ElementLoc("inner", k, i)]])
    [] OTHER -> <<>>

TargetLocs == IF Backward THEN Rev(SourceLocs) ELSE SourceLocs

Expect(W, l, old) == IF l \in W THEN NewVal ELSE old

MutableViews == {"Iterate", "Reverse", "Filter", "Enumerate", "AsReferences", "Chain"}

\* C10: for Iterate, Reverse, Filter, Enumerate, AsReferences and Chain over
\* a mutable source, an assignment through the reference of the k-th
\* dereference (forward or reverse) changes exactly the element of the
\* original source that the k-th position of the traversal stands for; the
\* source shows the new value and every other element keeps its value.
C10_WriteThrough ==
  (view \in MutableViews /\ writes # <<>>) =>
    LET T == TargetLocs
        W == {T[writes[j]] : j \in 1..Len(writes)}
    IN  /\ \A j \in 1..Len(writes) : writes[j] \in 1..Len(T)
        /\ iterable_ = [i \in 1..Len(orig.iterable) |->
                         Expect(W, ElementLoc("iterable", 0, i), orig.iterable[i])]
        /\ heap = [a \in DOMAIN orig.heap |->
                    Expect(W, ElementLoc("heap", 0, a), orig.heap[a])]
        /\ data_ = [k \in 1..Len(orig.data) |->
                     [i \in 1..Len(orig.data[k]) |->
                       Expect(W, ElementLoc("inner", k, i), orig.data[k][i])]]

C10_Witness ==
  /\ view = "Chain" /\ rev /\ ~wrap /\ pc = "done"
  /\ orig.data = << <<11, 12>>, <<>>, <<31, 32>> >>
  /\ writes = <<3>>
  /\ data_ = << <<11, NewVal>>, <<>>, <<31, 32>> >>

\* C11: writing through the reference of the k-th position of a forward
\* traversal of Join(a,b) changes a[k] when k is within a and b[k - Len(a)]
\* otherwise, and nothing else; a traversal that writes at every position
\* leaves every element of a and of b written once, in place.
C11_JoinWriteThrough ==
  (view = "Join" /\ ~wrap /\ ~rev) =>
    LET W == {writes[j] : j \in 1..Len(writes)}
        n == Len(orig.first)
    IN  /\ W \subseteq 1..(n + Len(orig.second))
        /\ Cardinality(W) = Len(writes)
        /\ first_ = [i \in 1..n |-> IF i \in W THEN NewVal ELSE orig.first[i]]
        /\ second_ = [i \in 1..Len(orig.second) |->
                       IF n + i \in W THEN NewVal ELSE orig.second[i]]

C11_Witness ==
  /\ view = "Join" /\ ~wrap /\ ~rev /\ pc = "done"
  /\ orig.first = <<11, 12, 13>> /\ orig.second = <<21, 22, 23>>
  /\ writes = <<1, 2, 3, 4, 5, 6>>
  /\ first_ = <<NewVal, NewVal, NewVal>> /\ second_ = <<NewVal, NewVal, NewVal>>

\* ---- read-only and bidirectional views -------------------------------------
\* the classification of a source bound as T: read-only when the binding is
\* const or when the source's own iterator dereferences to a const element
ReadOnlySource(T, S) == is_const_type(T) \/ S.iterator = "const T&"

ReadOnlyClassified ==
  IF adaptor = "Join"
    THEN ReadOnlySource(binding, source) \/ ReadOnlySource(binding2, source2)
    ELSE ReadOnlySource(binding, source)

\* C12: the client of a view classified read-only (const binding, or a source
\* whose own iterator yields const elements) never gets to assign to an
\* element of the source, whichever cursor it takes and whatever it does with
\* the dereferenced value, a copy of an Enumerate Item included.
C12_ReadOnlyViewNeverModifies ==
  (adaptor \notin {"none", "rejected"} /\ ReadOnlyClassified) => ~modified

SingleSourceAdaptors == {"Iterate", "Reverse", "Filter", "Enumerate", "AsReferences", "Chain"}

\* C13: the iterator of a view built by Iterate, Reverse, Filter, Enumerate,
\* AsReferences or Chain dereferences to a const element exactly when the
\* binding is const or the source's own iterator dereferences to a const
\* element, and to a mutable element otherwise.
C13_ReadOnlyIffEitherSignal ==
  (adaptor \in SingleSourceAdaptors /\ source.iterator \in References) =>
    class.iterator = (IF ReadOnlySource(binding, source) THEN "const T&" ELSE "T&")

\* C14: the iterator and the reverse_iterator of Join(a, b) dereference to a
\* const element when a or b is read-only, by its binding or by its own
\* iterator, and to a mutable element when neither is.
C14_JoinReadOnlyIfEither ==
  adaptor = "Join" =>
    LET expected == IF ReadOnlyClassified THEN "const T&" ELSE "T&"
    IN  /\ class.iterator = expected
        /\ has_rbegin(class) => class.reverse_iterator = expected

\* C15: a view has rbegin()/rend() exactly when every collection its
\* expression traverses has them: both sources of a Join, the outer and the
\* inner collection of a Chain, at every nesting.
C15_BidirectionalIffAllSources ==
  adaptor \notin {"none", "rejected"} => (has_rbegin(class) <=> touched)

C15_Witness ==
  /\ depth = 2 /\ adaptor = "Chain"
  /\ has_rbegin(source) /\ ~has_rbegin(source.inner[1])
  /\ ~has_rbegin(class)

\* C16: Reverse yields a view only of a source that has rbegin()/rend(); on
\* a forward-only collection or view, such as the Join of a forward-only and
\* a bidirectional collection, it is rejected when compiled: no view exists
\* and no cursor is ever taken.
C16_ReverseOnlyOfBidirectional ==
  /\ adaptor = "Reverse" => has_rbegin(source)
  /\ adaptor = "rejected" => (~has_rbegin(source) /\ class = source /\ cursor = "none")

C16_Witness ==
  /\ adaptor = "rejected" /\ depth = 2
  /\ source = ForwardJoinedType("C&", forward_list("int", <<>>), "C&", vector("int", <<>>))

\* ---- ownership, recomputation and reverse traversals ------------------------
OrigMembers ==
  [iterable |-> orig.iterable, first |-> orig.first, second |-> orig.second, data |-> orig.data]

\* what a front-to-back traversal is to yield, from the sources as they are
SourceYield ==
  CASE view \in {"Iterate", "Reverse"} -> iterable_
    [] view = "Enumerate" ->
         [i \in 1..Len(iterable_) |->
           [Position |-> i - 1, Value |-> iterable_[i],
            At |-> [c |-> "iterable", k |-> 0, i |-> i]]]
    [] view = "Chain" -> Flatten(data_)
    [] view = "AsReferences" -> [i \in 1..Len(iterable_) |-> heap[iterable_[i]]]
    [] view = "Join" -> first_ \o second_
    [] view = "Map" -> [i \in 1..Len(iterable_) |-> mapping_function_[iterable_[i]]]
    [] OTHER -> SelectSeq(iterable_, Accepted)

ExpectedYield == IF Backward THEN Rev(SourceYield) ELSE SourceYield

\* TRUE when the view was built from a named collection of the caller
FromLvalue == binding \in {"C&", "const C&"}

\* C17: a view built from the caller's lvalue refers to the caller's
\* collection: the two are the same after any change made on either side. A
\* view built from a temporary owns its collection: the caller's changes do
\* not reach it, its traversal yields the elements the temporary held, and
\* writes through it do not reach the caller's collection.
C17_Ownership ==
  round >= 1 =>
    /\ FromLvalue => caller = Members
    /\ (~FromLvalue /\ round = 1 /\ writes = <<>>) =>
          /\ Storage = orig
          /\ pc # "start" => YieldsExactly(ExpectedYield)
    /\ (~FromLvalue /\ edited = 0) => caller = OrigMembers

C17_Witness ==
  /\ view = "Iterate" /\ binding = "C" /\ ~rev /\ round = 1 /\ pc = "done"
  /\ orig.iterable = <<1, 2>>
  /\ caller.iterable = <<2, 2>>
  /\ iterable_ = <<1, NewVal>>
  /\ out = <<1, 2>>

\* C18: a loop over an existing view, begun after elements of its source
\* were changed through the view or by the caller, yields what the view is to
\* yield of the current values: Filter applies its predicate and Map its
\* function to the values as they are now.
C18_NoCachedElements ==
  (round >= 2 /\ writes = <<>> /\ pc # "start") => YieldsExactly(ExpectedYield)

C18_Witness ==
  /\ view = "Filter" /\ binding = "C&" /\ ~rev /\ round = 2 /\ pc = "done"
  /\ filter_ = {1}
  /\ orig.iterable = <<1, 2>>
  /\ iterable_ = <<NewVal, 1>>
  /\ out = <<1>>

\* C19: a forward traversal of AsReferences over a collection of pointers
\* yields, in the collection's order, a reference to the object each entry
\* points to; a write through it changes that object, and the collection
\* keeps its length and its entries.
C19_AsReferences ==
  (view = "AsReferences" /\ ~wrap /\ ~rev) =>
    LET W == {iterable_[writes[j]] : j \in 1..Len(writes)}
        WrittenBefore(j) == \E k \in 1..Len(writes) : writes[k] < j /\ iterable_[writes[k]] = iterable_[j]
    IN  /\ iterable_ = orig.iterable
        /\ Len(out) <= Len(iterable_)
        /\ pc = "done" => Len(out) = Len(iterable_)
        /\ \A j \in 1..Len(out) :
             out[j] = (IF WrittenBefore(j) THEN NewVal ELSE orig.heap[iterable_[j]])
        /\ pc = "body" => ref = [c |-> "heap", k |-> 0, i |-> iterable_[Len(out)]]
        /\ heap = [a \in DOMAIN orig.heap |-> IF a \in W THEN NewVal ELSE orig.heap[a]]

C19_Witness ==
  /\ view = "AsReferences" /\ ~wrap /\ ~rev /\ pc = "done"
  /\ iterable_ = <<2, 1, 2>>
  /\ writes = <<1>>
  /\ out = <<12, 11, NewVal>>
  /\ heap = <<11, NewVal>>

\* C20: for Iterate, Map, Filter, AsReferences and Chain, the traversal from
\* rbegin() to rend(), and the forward traversal of Reverse(view), yield what
\* the forward traversal of the view yields, in reverse order.
C20_ReverseOfForward ==
  (view \in {"Iterate", "Map", "Filter", "AsReferences", "Chain"} /\ pc # "start") =>
    /\ rev = wrap => YieldsExactly(SourceYield)
    /\ rev # wrap => YieldsExactly(Rev(SourceYield))

C20_Witness ==
  /\ view = "Chain" /\ wrap /\ ~rev /\ pc = "done"
  /\ data_ = << <<11, 12>>, <<>>, <<31, 32>>, <<>> >>
  /\ out = <<32, 31, 12, 11>>

\* ---- when Map's function runs ------------------------------------------------
\* the elements of the source in the order the traversal visits them
VisitOrder ==
  LET locs == [i \in 1..Len(orig.iterable) |-> ElementLoc("iterable", 0, i)]
  IN  IF Backward THEN Rev(locs) ELSE locs

\* C29: Map's function runs on dereference only, once per dereference, on the
\* element the cursor designates: after k dereferences it has run on the
\* first k elements of the traversal order, once each, whatever else the loop
\* did; a completed traversal, forward or reverse, has run it once on every
\* element, and a function that adds to its argument has added once to each
\* element of the source.
C29_MapCallsOncePerDereference ==
  view = "Map" =>
    /\ Len(calls) = Len(out)
    /\ IsPrefix(calls, VisitOrder)
    /\ pc = "done" => calls = VisitOrder
    /\ \A j \in 1..Len(out) : out[j] = mapping_function_[orig.iterable[calls[j].i]]
    /\ iterable_ = [i \in 1..Len(orig.iterable) |->
                     IF \E j \in 1..Len(calls) : calls[j].i = i
                       THEN orig.iterable[i] + in_place ELSE orig.iterable[i]]

C29_Witness ==
  /\ view = "Map" /\ wrap /\ ~rev /\ pc = "done"
  /\ in_place = kAdded
  /\ orig.iterable = <<1, 2, 1>>
  /\ iterable_ = <<101, 102, 101>>
  /\ Len(calls) = 3 /\ calls[1].i = 3

\* ---- two cursors, two access paths -------------------------------------------
\* how many times a loop at position p, having yielded o, has advanced its cursor
Increments(p, o) == IF p = "body" THEN Len(o) - 1 ELSE Len(o)

\* C21: a loop over std::as_const(view), by begin()/end() or rbegin()/rend(),
\* yields element for element what the loop over the view itself yields, for
\* every adaptor, Map's computed values included: whichever loop is ahead,
\* the other has yielded a prefix of it, and both end with the same sequence.
C21_ConstPathYieldsTheSame ==
  access = "const" =>
    /\ IsPrefix(out, out2) \/ IsPrefix(out2, out)
    /\ (pc = "done" /\ pc2 = "done") => out = out2

C21_Witness ==
  /\ access = "const" /\ view = "Chain" /\ rev /\ ~wrap
  /\ pc = "done" /\ pc2 = "done"
  /\ data_ = << <<11, 12>>, <<21, 22>> >>
  /\ out2 = <<22, 21, 12, 11>>

C23_IndependentCursors ==
  /\ pc # "start" => YieldsExactly(ExpectedYield)
  /\ pc2 # "start" =>
       /\ IsPrefix(out2, ExpectedYield)
       /\ pc2 = "done" => out2 = ExpectedYield

C23_Witness ==
  /\ view = "Enumerate" /\ ~rev /\ ~wrap /\ access = "mutable"
  /\ Len(iterable_) = 2
  /\ pc = "done" /\ Len(out) = 2
  /\ pc2 = "body" /\ Len(out2) = 1 /\ out2[1].Position = 0

\* ---- where a cursor may rest ----------------------------------------------------
\* C24: a Filter cursor, forward or reverse, as constructed by begin() or
\* rbegin() and after every ++, either equals the end cursor or designates
\* an element of the source that satisfies the predicate; when no element
\* satisfies it, the cursor of begin() equals end() at once.
C24_FilterCursorRestsOnAccepted ==
  (view = "Filter" /\ pc \in {"test", "body"}) =>
    /\ \/ FilterIterator_Eq(it, end_it)
       \/ /\ ValidLoc(StdLoc(it.begin_))
          /\ ReadLoc(StdLoc(it.begin_)) \in filter_
    /\ (\A i \in 1..Len(iterable_) : iterable_[i] \notin filter_) =>
         (FilterIterator_Eq(it, end_it) /\ out = <<>>)

C24_Witness ==
  /\ view = "Filter" /\ rev /\ ~wrap /\ pc = "test"
  /\ iterable_ = <<1, 2, 2>> /\ filter_ = {1}
  /\ out = <<>>
  /\ StdLoc(it.begin_).i = 1

\* C25: a Chain cursor, as constructed and after every ++, is at the outer
\* end, and then equal to end(), or its inner position designates an
\* existing element of the inner collection at its outer position: it rests
\* on no empty or exhausted inner collection and holds no inner position of
\* the outer end.
C25_ChainCursorRestsOnElement ==
  (view = "Chain" /\ pc \in {"test", "body"}) =>
    IF ChainedIterator_IsAtEnd(it)
      THEN ChainedIterator_Eq(it, end_it) /\ it.outer_begin_ = end_it.outer_begin_
      ELSE /\ ValidLoc(StdLoc(it.outer_begin_))
           /\ it.inner_begin_ # it.inner_end_
           /\ it.inner_begin_.c = "inner" /\ it.inner_begin_.k = StdLoc(it.outer_begin_).i
           /\ it.inner_end_.k = it.inner_begin_.k
           /\ ValidLoc(StdLoc(it.inner_begin_))

C25_Witness ==
  /\ view = "Chain" /\ ~rev /\ ~wrap /\ pc = "test"
  /\ data_ = << <<11>>, <<>>, <<>>, <<41, 42>> >>
  /\ out = <<11>>
  /\ StdLoc(it.outer_begin_).i = 4 /\ StdLoc(it.inner_begin_).i = 1

\* C26: the loop that skips empty inner collections, in the constructor and
\* in ++ of a Chain cursor, always returns; over a whole traversal the outer
\* position is advanced at most once per inner collection, and exactly once
\* each when the traversal is done; begin() equals end() exactly when no
\* inner collection holds an element.
C26_ChainSkipTerminates ==
  /\ [](/\ advances <= Len(data_)
        /\ pc = "done" => advances = Len(data_)
        /\ (pc = "test" /\ out = <<>>) =>
             (ChainedIterator_Eq(it, end_it) <=> Flatten(data_) = <<>>))
  /\ (pc = "skip") ~> (pc = "test")

C26_Witness ==
  /\ ~rev /\ pc = "test" /\ out = <<>>
  /\ data_ = << <<>>, <<>>, <<>>, <<41>> >>
  /\ advances = 3
  /\ ~ChainedIterator_Eq(it, end_it)

\* ---- comparing cursors -----------------------------------------------------------
\* how far a standard iterator is from where its traversal starts
Offset(i) == IF i.reversed THEN Len(Coll(i.c, i.k)) + 1 - i.base ELSE i.base - 1

Min(a, b) == IF a <= b THEN a ELSE b

\* both loops hold a cursor of the view's own (non-const) cursor type
BothCursors == access = "mutable" /\ pc \in {"test", "body"} /\ pc2 \in {"test", "body"}

\* C27: a Join cursor that has been advanced k times from begin() stands at
\* position min(k, n) of the half it walks first (n its length) and at
\* position k - n, or at the start while k <= n, of the other half; it
\* equals end() exactly when k is the sum of both lengths, and two cursors of
\* the view are equal exactly when they were advanced equally often, so the
\* cursor at the change of halves equals its like and differs from end()
\* when the second half has elements.
C27_JoinCursorEquality ==
  (view = "Join" /\ pc \in {"test", "body"}) =>
    LET k == Increments(pc, out)
        n == IF Backward THEN Len(second_) ELSE Len(first_)
        m == IF Backward THEN Len(first_) ELSE Len(second_)
    IN  /\ k <= n + m
        /\ Offset(it.first_) = Min(k, n)
        /\ Offset(it.second_) = k - Min(k, n)
        /\ JoinedIterator_Eq(it, end_it) <=> k = n + m
        /\ BothCursors => (JoinedIterator_Eq(it, it2) <=> k = Increments(pc2, out2))

C27_Witness ==
  /\ view = "Join" /\ ~rev /\ ~wrap /\ access = "mutable"
  /\ first_ = <<11, 12>> /\ second_ = <<21, 22>>
  /\ pc = "test" /\ out = <<11, 12>>
  /\ pc2 = "test" /\ out2 = <<11, 12>>
  /\ JoinedIterator_Eq(it, it2) /\ ~JoinedIterator_Eq(it, end_it)

\* C30: two cursors of one Chain view compare equal exactly when they
\* designate the same position of the traversal, that is when they were
\* advanced equally often from begin(); two cursors that are not at the end
\* and were advanced a different number of times compare unequal.
C30_ChainCursorEquality ==
  (view = "Chain" /\ BothCursors) =>
    (ChainedIterator_Eq(it, it2) <=> Increments(pc, out) = Increments(pc2, out2))

\* ---- the item of an Enumerate cursor -------------------------------------------
\* C28: dereferencing an Enumerate cursor that is not at the end gives the
\* item of the cursor's present state: its position is the cursor's, which
\* after a ++ is the position of the item yielded before plus the cursor's
\* step (+1 on the source's forward cursors, -1 on its reverse cursors), and
\* its value is the element the source cursor designates now, not the one
\* yielded before.
C28_EnumerateItemNeverStale ==
  (view = "Enumerate" /\ pc \in {"test", "body"} /\ ~EnumeratedIterator_Eq(it, end_it)) =>
    LET item == EnumeratedIterator_Deref(it)
        step == IF it.begin_.reversed THEN -1 ELSE 1
    IN  /\ item.position_ = it.position_
        /\ item.value_ = StdLoc(it.begin_)
        /\ ValidLoc(item.value_)
        /\ (pc = "test" /\ out # <<>>) =>
             /\ item.position_ = out[Len(out)].Position + step
             /\ item.value_ # out[Len(out)].At

C28_Witness ==
  /\ view = "Enumerate" /\ rev /\ ~wrap /\ pc = "test"
  /\ Len(iterable_) = 3 /\ Len(out) = 1
  /\ out[1].Position = 2
  /\ EnumeratedIterator_Deref(it).position_ = 1
  /\ EnumeratedIterator_Deref(it).value_.i = 2

====
